---- MODULE Spec2Model ----
(***************************************************************************)
(* Model of the row-cache admission policy of db/kv_cache_policy.cc:       *)
(* the sharded StatsTable (KVCPTable), the sharded ThresholdTable          *)
(* (KVCP_ThresholdTable) and the hooks that route to them.                 *)
(*                                                                         *)
(* Every hook is a sequence of steps of one thread: the acquisition of the *)
(* shard mutex by std::lock_guard, the statements of the critical section, *)
(* and the release of the mutex when the guard goes out of scope.  A       *)
(* thread that finds the mutex taken blocks: its acquiring step is simply  *)
(* not enabled.                                                            *)
(***************************************************************************)
EXTENDS Integers, Sequences, FiniteSets, TLC

---------------------------------------------------------------------------
(* Bounds of the model *)

\* number of threads of the hosting engine that call the hooks
NThreads == 2
\* the row cache holds at most this many copies of one key when a new insert starts
MaxCached == 2
\* a miss is reported only while the key's invalidation_count is below this
MaxInval == 2
\* thresholds passed to ShouldSkipInsert / SetThreshold range over 0..MaxThreshold
MaxThreshold == 2
\* calls per thread in the scenario "N threads insert the same key M times"
MaxCalls == 2

Threads == 1..NThreads
NoThread == 0
Null == "null"
\* the arguments of a thread that is in no operation
NoCall == [op |-> "none"]
\* a local or a return value that holds nothing
NoValue == << >>
\* a bool as a return value
BoolRet(b) == <<b>>

---------------------------------------------------------------------------
(* uint32_t: a value is kept as two 16-bit halves <<hi, lo>>, so that the  *)
(* full 32-bit range and its wrap-around are representable.                *)

U32Bits == 32
Half == 2^(U32Bits \div 2)

U32(n) == <<n \div Half, n % Half>>
U32Zero == U32(0)
U32Max == <<Half - 1, Half - 1>>
\* ++x on a uint32_t
U32Inc(x) == IF x[2] + 1 < Half THEN <<x[1], x[2] + 1>>
                                ELSE <<(x[1] + 1) % Half, 0>>
\* --x on a uint32_t
U32Dec(x) == IF x[2] > 0 THEN <<x[1], x[2] - 1>>
                         ELSE <<(x[1] + Half - 1) % Half, Half - 1>>
U32Gt(a, b) == a[1] > b[1] \/ (a[1] = b[1] /\ a[2] > b[2])
U32Ge(a, b) == a = b \/ U32Gt(a, b)

---------------------------------------------------------------------------
(* Keys and sharding *)

kShards == 64

\* database handles (addresses of live DB objects) and column family ids
DbPtrs == {4096, 4160}
CfIds == {0, 1}
UserKeys == {"a", "b"}

\* KVCPKeyCtx / HKey: MakeKey copies the three fields, HKey::operator==
\* compares all three, so a key is the record of the three values.
MakeKey(db, cf, uk) == [db_ptr |-> db, cf_id |-> cf, user_key |-> uk]

K1 == MakeKey(4096, 0, "a")
K2 == MakeKey(4096, 0, "b")
K3 == MakeKey(4096, 1, "a")
K4 == MakeKey(4160, 0, "a")
Keys == {K1, K2, K3, K4}
TKeys == {<<db, cf>> : db \in DbPtrs, cf \in CfIds}

\* bitwise xor of two naturals
RECURSIVE Xor(_, _)
Xor(a, b) == IF a = 0 THEN b
             ELSE IF b = 0 THEN a
             ELSE (((a % 2) + (b % 2)) % 2) + 2 * Xor(a \div 2, b \div 2)

\* The shard index is h & (kShards - 1).  The low bits of an xor and of a
\* product depend only on the low bits of the operands, so the hash is
\* computed modulo kShards throughout; the two numbers below are the FNV
\* offset 1469598103934665603 and the FNV prime 1099511628211 modulo 64.
FnvOffsetLow == 3
FnvPrimeLow == 51
Mix(h, x) == (Xor(h, x % kShards) * FnvPrimeLow) % kShards

\* Hash64(user_key, seed) of util/hash.h, modulo kShards: a fixed function of
\* the key bytes.  "a" and "b" agree in the low bits, so K1 and K2 share a
\* shard; the two database handles agree in them too, so K4 shares it as well.
Hash64Low(uk) == CASE uk = "a" -> 7
                   [] uk = "b" -> 7

\* KVCPTable::ShardIdx and KVCP_ThresholdTable::ShardIdx as the code computes them
HashShard(k) == Mix(Mix(Mix(FnvOffsetLow, k.db_ptr), k.cf_id), Hash64Low(k.user_key))
THashShard(db, cf) == Mix(Mix(FnvOffsetLow, db), cf)

\* the same, tabulated once over the keys of the model
ShardTable == [k \in Keys |-> HashShard(k)]
TShardTable == [p \in TKeys |-> THashShard(p[1], p[2])]
ShardIdx(k) == ShardTable[k]
TShardIdx(db, cf) == TShardTable[<<db, cf>>]

\* The shards some key of the model hashes to.  The other shards of the two
\* vectors of kShards shards stay empty and unlocked for ever (ClearAll visits
\* them without effect), so the state keeps only these.
UsedShards == {ShardIdx(k) : k \in Keys}
TUsedShards == {TShardIdx(p[1], p[2]) : p \in TKeys}

---------------------------------------------------------------------------
(* State *)

VARIABLES
    map,    \* shards_[i].map of KVCPTable: shard -> (HKey -> Entry), partial
    mu,     \* shards_[i].mu of KVCPTable: the thread holding it, or NoThread
    tmap,   \* shards_[i].map of KVCP_ThresholdTable: shard -> (TKey -> uint32)
    tmu,    \* shards_[i].mu of KVCP_ThresholdTable
    pc,     \* per thread: the statement it is at ("idle": in no hook)
    arg,    \* per thread: the arguments of the hook it is in
    it,     \* per thread: the iterator returned by find: "end" or "found"
    tmp,    \* per thread: the counter value loaded by ++e.cached_key_count
    ret,    \* per thread: the value the hook is about to return
    idx,    \* per thread: the position of ClearAll's loop over shards_
    calls,  \* per thread: hooks completed by the caller's insert loop
    hybrid  \* the process-wide HybridModeFlag

vars == <<map, mu, tmap, tmu, pc, arg, it, tmp, ret, idx, calls, hybrid>>

\* struct Entry with its default member initialisers
DefaultEntry == [cached_key_count |-> U32Zero, invalidation_count |-> U32Zero]

\* an unordered_map with no element
EmptyMap == [x \in {} |-> Null]

\* sh.map.find(key) != sh.map.end()
Has(m, k) == k \in DOMAIN m

Init ==
    /\ map = [s \in UsedShards |-> EmptyMap]
    /\ mu = [s \in UsedShards |-> NoThread]
    /\ tmap = [s \in TUsedShards |-> EmptyMap]
    /\ tmu = [s \in TUsedShards |-> NoThread]
    /\ pc = [t \in Threads |-> "idle"]
    /\ arg = [t \in Threads |-> NoCall]
    /\ it = [t \in Threads |-> Null]
    /\ tmp = [t \in Threads |-> NoValue]
    /\ ret = [t \in Threads |-> NoValue]
    /\ idx = [t \in Threads |-> 0]
    /\ calls = [t \in Threads |-> 0]
    /\ hybrid = FALSE

---------------------------------------------------------------------------
(* Mutexes and the steps common to all hooks *)

\* the broken variant of MutexFree: a lock that never excludes anybody
MutexFree_NoExclusion(m, s) == TRUE

\* std::lock_guard<std::mutex> lk(sh.mu) can take the mutex
MutexFree(m, s) == m[s] = NoThread

\* the shard of the StatsTable the thread's key lives in (ShardRef)
ShardRef(t) == ShardIdx(arg[t].k)
\* the shard of the ThresholdTable the thread's (db_ptr, cf_id) lives in
TShardRef(t) == TShardIdx(arg[t].db_ptr, arg[t].cf_id)

\* thread t enters a StatsTable hook and takes the mutex of the key's shard
Acquire(t, call, first) ==
    /\ pc[t] = "idle"
    /\ MutexFree(mu, ShardIdx(call.k))
    /\ mu' = [mu EXCEPT ![ShardIdx(call.k)] = t]
    /\ pc' = [pc EXCEPT ![t] = first]
    /\ arg' = [arg EXCEPT ![t] = call]
    /\ UNCHANGED <<map, tmap, tmu, it, tmp, ret, idx, calls, hybrid>>

\* the broken variant of Unlocked: the guard outlives its scope, the mutex stays taken
Unlocked_Held(m, s) == m

\* ~lock_guard: the mutex of shard s is free again
Unlocked(m, s) == [m EXCEPT ![s] = NoThread]

\* the lock_guard of a StatsTable hook goes out of scope and the hook returns
ReleaseStep(t) ==
    /\ pc[t] = "unlock"
    /\ mu' = Unlocked(mu, ShardRef(t))
    /\ pc' = [pc EXCEPT ![t] = "idle"]
    /\ arg' = [arg EXCEPT ![t] = NoCall]
    /\ it' = [it EXCEPT ![t] = Null]
    /\ tmp' = [tmp EXCEPT ![t] = NoValue]
    /\ ret' = [ret EXCEPT ![t] = NoValue]
    /\ UNCHANGED <<map, tmap, tmu, idx, hybrid>>

Release(t) == ReleaseStep(t) /\ UNCHANGED calls

\* the same, as the last step of one iteration of a caller's insert loop
LoopRelease(t) == ReleaseStep(t) /\ calls' = [calls EXCEPT ![t] = @ + 1]

\* thread t moves to statement next having changed only the shard's map
Step(t, next, newmap) ==
    /\ map' = [map EXCEPT ![ShardRef(t)] = newmap]
    /\ pc' = [pc EXCEPT ![t] = next]
    /\ UNCHANGED <<mu, tmap, tmu, arg, idx, calls, hybrid>>

\* the broken variant of Put: keys are compared by their user key only
Put_ByUserKey(m, k, e) ==
    [x \in (DOMAIN m) \cup {k} |-> IF x.user_key = k.user_key THEN e ELSE m[x]]

\* m with key k bound to entry e (insertion or overwrite); the keys are
\* compared as HKey::operator== does, field by field
Put(m, k, e) == [x \in (DOMAIN m) \cup {k} |-> IF x = k THEN e ELSE m[x]]
\* the broken variant of Erase: the Entry stays as a tombstone with count 0
Erase_KeepsHistory(m, k) ==
    [x \in DOMAIN m |-> IF x = k THEN [m[x] EXCEPT !.cached_key_count = U32Zero] ELSE m[x]]

\* sh.map.erase(it)
Erase(m, k) == [x \in (DOMAIN m) \ {k} |-> m[x]]
\* auto it = sh.map.find(key), as thread t keeps it
Found(t, m, k) == [it EXCEPT ![t] = IF Has(m, k) THEN "found" ELSE "end"]
\* the entry an iterator or reference to key k designates
At(m, k) == IF Has(m, k) THEN m[k] ELSE DefaultEntry

---------------------------------------------------------------------------
(* KVCPTable::OnMiss *)

\* the broken variant of MissBody: operator[] in place of find
MissBody_Creates(m, k) ==
    Put(m, k, [At(m, k) EXCEPT !.invalidation_count = U32Inc(@)])

\* the broken variant of MissCounts: > 1 in place of > 0
MissCounts_One(e) == U32Gt(e.cached_key_count, U32(1))

\* it->second.cached_key_count > 0
MissCounts(e) == U32Gt(e.cached_key_count, U32Zero)

MissBody(m, k) ==
    IF Has(m, k) /\ MissCounts(m[k])
    THEN Put(m, k, [m[k] EXCEPT !.invalidation_count = U32Inc(@)])
    ELSE m

CallOnMiss(t, k) == Acquire(t, [op |-> "OnMiss", k |-> k], "miss")

OnMiss(t) ==
    /\ pc[t] = "miss"
    /\ Step(t, "unlock", MissBody(map[ShardRef(t)], arg[t].k))
    /\ it' = Found(t, map[ShardRef(t)], arg[t].k)
    /\ UNCHANGED <<tmp, ret>>

---------------------------------------------------------------------------
(* The lookups of the read operations *)

\* the broken variant of Searched: the lookup consumes the element it finds
Searched_Erases(m, k) == IF Has(m, k) THEN Erase(m, k) ELSE m

\* the map after sh.map.find(key): a lookup inserts and removes nothing
Searched(m, k) == m

---------------------------------------------------------------------------
(* KVCPTable::ShouldSkipInsert *)

\* the broken variant of SkipResult: > in place of >=
SkipResult_Strict(m, k, threshold) ==
    IF ~Has(m, k) THEN FALSE
    ELSE U32Gt(m[k].invalidation_count, threshold)

SkipResult(m, k, threshold) ==
    IF ~Has(m, k) THEN FALSE
    ELSE U32Ge(m[k].invalidation_count, threshold)

CallShouldSkipInsert(t, k, threshold) ==
    Acquire(t, [op |-> "ShouldSkipInsert", k |-> k, threshold |-> threshold], "skip")

ShouldSkipInsert(t) ==
    /\ pc[t] = "skip"
    /\ ret' = [ret EXCEPT ![t] =
           BoolRet(SkipResult(map[ShardRef(t)], arg[t].k, arg[t].threshold))]
    /\ it' = Found(t, map[ShardRef(t)], arg[t].k)
    /\ pc' = [pc EXCEPT ![t] = "unlock"]
    /\ map' = [map EXCEPT ![ShardRef(t)] = Searched(@, arg[t].k)]
    /\ UNCHANGED <<mu, tmap, tmu, arg, tmp, idx, calls, hybrid>>

---------------------------------------------------------------------------
(* KVCPTable::OnInsert *)

CallOnInsert(t, k) == Acquire(t, [op |-> "OnInsert", k |-> k], "ins_ref")

\* the broken variant of Subscript: the Entry found is replaced by a default one
Subscript_Fresh(m, k) == Put(m, k, DefaultEntry)

\* auto& e = sh.map[MakeKey(k)]: a missing key gets a default Entry
Subscript(m, k) == IF Has(m, k) THEN m ELSE Put(m, k, DefaultEntry)

InsertRef(t) ==
    /\ pc[t] = "ins_ref"
    /\ Step(t, "ins_load", Subscript(map[ShardRef(t)], arg[t].k))
    /\ UNCHANGED <<it, tmp, ret>>

\* ++e.cached_key_count, the read
InsertLoad(t) ==
    /\ pc[t] = "ins_load"
    /\ tmp' = [tmp EXCEPT ![t] = At(map[ShardRef(t)], arg[t].k).cached_key_count]
    /\ pc' = [pc EXCEPT ![t] = "ins_store"]
    /\ UNCHANGED <<map, mu, tmap, tmu, arg, it, ret, idx, calls, hybrid>>

\* the broken variant of Incremented: the count is set, not incremented
Incremented_Set(e, old) == [e EXCEPT !.cached_key_count = U32(1)]

Incremented(e, old) == [e EXCEPT !.cached_key_count = U32Inc(old)]

\* ++e.cached_key_count, the write
InsertStore(t) ==
    /\ pc[t] = "ins_store"
    /\ LET m == map[ShardRef(t)]
           k == arg[t].k
       IN  Step(t, "unlock", Put(m, k, Incremented(At(m, k), tmp[t])))
    /\ UNCHANGED <<it, tmp, ret>>

---------------------------------------------------------------------------
(* KVCPTable::OnEvict *)

\* the broken variant of EvictKeeps: > 0 in place of > 1
EvictKeeps_Zero(e) == U32Gt(e.cached_key_count, U32Zero)

\* e.cached_key_count > 1: the entry is decremented, not erased
EvictKeeps(e) == U32Gt(e.cached_key_count, U32(1))

\* the broken variant of EvictBody: the entry is erased whatever its count
EvictBody_Erases(m, k) == IF ~Has(m, k) THEN m ELSE Erase(m, k)

EvictBody(m, k) ==
    IF ~Has(m, k) THEN m
    ELSE IF EvictKeeps(m[k])
         THEN Put(m, k, [m[k] EXCEPT !.cached_key_count = U32Dec(@)])
         ELSE Erase(m, k)

CallOnEvict(t, k) == Acquire(t, [op |-> "OnEvict", k |-> k], "evict")

OnEvict(t) ==
    /\ pc[t] = "evict"
    /\ Step(t, "unlock", EvictBody(map[ShardRef(t)], arg[t].k))
    /\ it' = Found(t, map[ShardRef(t)], arg[t].k)
    /\ UNCHANGED <<tmp, ret>>

---------------------------------------------------------------------------
(* KVCPTable::GetInvalidation *)

GetInvalidationResult(m, k) ==
    IF ~Has(m, k) THEN U32Zero ELSE m[k].invalidation_count

CallGetInvalidation(t, k) == Acquire(t, [op |-> "GetInvalidation", k |-> k], "getinv")

GetInvalidation(t) ==
    /\ pc[t] = "getinv"
    /\ ret' = [ret EXCEPT ![t] = GetInvalidationResult(map[ShardRef(t)], arg[t].k)]
    /\ it' = Found(t, map[ShardRef(t)], arg[t].k)
    /\ pc' = [pc EXCEPT ![t] = "unlock"]
    /\ map' = [map EXCEPT ![ShardRef(t)] = Searched(@, arg[t].k)]
    /\ UNCHANGED <<mu, tmap, tmu, arg, tmp, idx, calls, hybrid>>

---------------------------------------------------------------------------
(* KVCPTable::ClearAll *)

\* The loop visits shards_ in index order, one lock at a time.  A shard that
\* no key of Keys hashes to is always empty and is locked by nobody but a
\* ClearAll for the moment of its visit, so the loop's position advances
\* over such shards without a step of its own.
NextUsed(i) ==
    IF \E s \in UsedShards : s >= i
    THEN CHOOSE s \in UsedShards : s >= i /\ \A u \in UsedShards : u >= i => s <= u
    ELSE kShards
NextTable == [i \in 0..kShards |-> NextUsed(i)]
NextShard(i) == NextTable[i]

CallClearAll(t) ==
    /\ pc[t] = "idle"
    /\ pc' = [pc EXCEPT ![t] = "clear_lock"]
    /\ arg' = [arg EXCEPT ![t] = [op |-> "ClearAll"]]
    /\ idx' = [idx EXCEPT ![t] = NextShard(0)]
    /\ UNCHANGED <<map, mu, tmap, tmu, it, tmp, ret, calls, hybrid>>

\* std::lock_guard<std::mutex> lk(sh.mu) of the loop body
ClearLock(t) ==
    /\ pc[t] = "clear_lock"
    /\ MutexFree(mu, idx[t])
    /\ mu' = [mu EXCEPT ![idx[t]] = t]
    /\ pc' = [pc EXCEPT ![t] = "clear_erase"]
    /\ UNCHANGED <<map, tmap, tmu, arg, it, tmp, ret, idx, calls, hybrid>>

\* the broken variant of Cleared: the shard is left as it is
Cleared_Nothing(m) == m

\* sh.map.clear()
Cleared(m) == EmptyMap

ClearErase(t) ==
    /\ pc[t] = "clear_erase"
    /\ map' = [map EXCEPT ![idx[t]] = Cleared(@)]
    /\ pc' = [pc EXCEPT ![t] = "clear_unlock"]
    /\ UNCHANGED <<mu, tmap, tmu, arg, it, tmp, ret, idx, calls, hybrid>>

\* end of the loop body: the guard releases the mutex, the loop advances
ClearUnlock(t) ==
    /\ pc[t] = "clear_unlock"
    /\ mu' = Unlocked(mu, idx[t])
    /\ idx' = [idx EXCEPT ![t] = NextShard(idx[t] + 1)]
    /\ pc' = [pc EXCEPT ![t] = IF NextShard(idx[t] + 1) < kShards
                               THEN "clear_lock" ELSE "clear_ret"]
    /\ UNCHANGED <<map, tmap, tmu, arg, it, tmp, ret, calls, hybrid>>

ClearReturn(t) ==
    /\ pc[t] = "clear_ret"
    /\ pc' = [pc EXCEPT ![t] = "idle"]
    /\ arg' = [arg EXCEPT ![t] = NoCall]
    /\ idx' = [idx EXCEPT ![t] = 0]
    /\ UNCHANGED <<map, mu, tmap, tmu, it, tmp, ret, calls, hybrid>>

---------------------------------------------------------------------------
(* KVCP_ThresholdTable *)

kKVCPDefaultThreshold == 3

\* KVCP_TKey{db_ptr, cf_id}
TKey(db, cf) == [db_ptr |-> db, cf_id |-> cf]
TKeyOf(t) == TKey(arg[t].db_ptr, arg[t].cf_id)

TAcquire(t, call, first) ==
    /\ pc[t] = "idle"
    /\ MutexFree(tmu, TShardIdx(call.db_ptr, call.cf_id))
    /\ tmu' = [tmu EXCEPT ![TShardIdx(call.db_ptr, call.cf_id)] = t]
    /\ pc' = [pc EXCEPT ![t] = first]
    /\ arg' = [arg EXCEPT ![t] = call]
    /\ UNCHANGED <<map, mu, tmap, it, tmp, ret, idx, calls, hybrid>>

TRelease(t) ==
    /\ pc[t] = "tunlock"
    /\ tmu' = Unlocked(tmu, TShardRef(t))
    /\ pc' = [pc EXCEPT ![t] = "idle"]
    /\ arg' = [arg EXCEPT ![t] = NoCall]
    /\ it' = [it EXCEPT ![t] = Null]
    /\ ret' = [ret EXCEPT ![t] = NoValue]
    /\ UNCHANGED <<map, mu, tmap, tmp, idx, calls, hybrid>>

TStep(t, next, newmap) ==
    /\ tmap' = [tmap EXCEPT ![TShardRef(t)] = newmap]
    /\ pc' = [pc EXCEPT ![t] = next]
    /\ UNCHANGED <<map, mu, tmu, arg, tmp, ret, idx, calls, hybrid>>

CallSet(t, db, cf, v) ==
    TAcquire(t, [op |-> "Set", db_ptr |-> db, cf_id |-> cf, v |-> v], "set_find")

\* auto it = sh.map.find(k)
SetFind(t) ==
    /\ pc[t] = "set_find"
    /\ it' = Found(t, tmap[TShardRef(t)], TKeyOf(t))
    /\ pc' = [pc EXCEPT ![t] = IF Has(tmap[TShardRef(t)], TKeyOf(t)) THEN "set_store" ELSE "set_slot"]
    /\ UNCHANGED <<map, mu, tmap, tmu, arg, tmp, ret, idx, calls, hybrid>>

\* auto& atom = sh.map[k]: the new slot holds a value-initialised atomic
SetSlot(t) ==
    /\ pc[t] = "set_slot"
    /\ TStep(t, "set_store", Put(tmap[TShardRef(t)], TKeyOf(t), U32Zero))
    /\ UNCHANGED it

\* the broken variant of Stored: the slot of (db_ptr, 0) is written whatever cf_id
Stored_AnyCf(m, k, v) == Put(m, TKey(k.db_ptr, 0), v)

\* atom.store(v) / it->second.store(v)
Stored(m, k, v) == Put(m, k, v)

SetStore(t) ==
    /\ pc[t] = "set_store"
    /\ TStep(t, "tunlock", Stored(tmap[TShardRef(t)], TKeyOf(t), arg[t].v))
    /\ UNCHANGED it

\* the broken variant of GetResult: 0 for a pair never set
GetResult_Zero(m, k) == IF ~Has(m, k) THEN U32Zero ELSE m[k]

GetResult(m, k) == IF ~Has(m, k) THEN U32(kKVCPDefaultThreshold) ELSE m[k]

CallGet(t, db, cf) ==
    TAcquire(t, [op |-> "Get", db_ptr |-> db, cf_id |-> cf], "get")

Get(t) ==
    /\ pc[t] = "get"
    /\ ret' = [ret EXCEPT ![t] = GetResult(tmap[TShardRef(t)], TKeyOf(t))]
    /\ it' = Found(t, tmap[TShardRef(t)], TKeyOf(t))
    /\ pc' = [pc EXCEPT ![t] = "tunlock"]
    /\ tmap' = [tmap EXCEPT ![TShardRef(t)] = Searched(@, TKeyOf(t))]
    /\ UNCHANGED <<map, mu, tmu, arg, tmp, idx, calls, hybrid>>

---------------------------------------------------------------------------
(* HybridModeFlag: one atomic boolean, off at startup.  KVCP_SetHybridEnabled *)
(* and KVCP_IsHybridEnabled are declared in rocksdb/kv_cache_policy.h; they  *)
(* are a plain atomic store and a plain atomic load.                          *)

\* the broken variant of HybridStored: the flag can be switched on, never off
HybridStored_OnOnly(flag, on) == flag \/ on

\* the value of the flag after store(on)
HybridStored(flag, on) == on

CallSetHybridEnabled(t, on) ==
    /\ pc[t] = "idle"
    /\ pc' = [pc EXCEPT ![t] = "hset"]
    /\ arg' = [arg EXCEPT ![t] = [op |-> "SetHybridEnabled", on |-> on]]
    /\ UNCHANGED <<map, mu, tmap, tmu, it, tmp, ret, idx, calls, hybrid>>

SetHybridEnabled(t) ==
    /\ pc[t] = "hset"
    /\ hybrid' = HybridStored(hybrid, arg[t].on)
    /\ pc' = [pc EXCEPT ![t] = "hret"]
    /\ UNCHANGED <<map, mu, tmap, tmu, arg, it, tmp, ret, idx, calls>>

CallIsHybridEnabled(t) ==
    /\ pc[t] = "idle"
    /\ pc' = [pc EXCEPT ![t] = "hget"]
    /\ arg' = [arg EXCEPT ![t] = [op |-> "IsHybridEnabled"]]
    /\ UNCHANGED <<map, mu, tmap, tmu, it, tmp, ret, idx, calls, hybrid>>

IsHybridEnabled(t) ==
    /\ pc[t] = "hget"
    /\ ret' = [ret EXCEPT ![t] = BoolRet(hybrid)]
    /\ pc' = [pc EXCEPT ![t] = "hret"]
    /\ UNCHANGED <<map, mu, tmap, tmu, arg, it, tmp, idx, calls, hybrid>>

HybridReturn(t) ==
    /\ pc[t] = "hret"
    /\ pc' = [pc EXCEPT ![t] = "idle"]
    /\ arg' = [arg EXCEPT ![t] = NoCall]
    /\ ret' = [ret EXCEPT ![t] = NoValue]
    /\ UNCHANGED <<map, mu, tmap, tmu, it, tmp, idx, calls, hybrid>>

---------------------------------------------------------------------------
(* What the callers do *)

\* the Entry of key k, or Null: what a hook holding no lock would find
EntryOf(k) == IF Has(map[ShardIdx(k)], k) THEN map[ShardIdx(k)][k] ELSE Null
Present(k) == Has(map[ShardIdx(k)], k)

\* the row cache holds fewer than MaxCached copies of k
CachedBelow(k) ==
    IF Present(k) THEN ~U32Ge(EntryOf(k).cached_key_count, U32(MaxCached)) ELSE TRUE
\* fewer than MaxInval invalidations of k have been counted
InvalBelow(k) ==
    IF Present(k) THEN ~U32Ge(EntryOf(k).invalidation_count, U32(MaxInval)) ELSE TRUE

Thresholds == {U32(n) : n \in 0..MaxThreshold}

\* keys of the general scenario: K1 and K3 are in different shards
CoreKeys == {K1, K3}
\* the threads that call ClearAll in the general scenario: at most two, which
\* is what two concurrent clears and a clear amid hooks need
ClearThreads == {t \in Threads : t <= 2}

Next ==
    \E t \in Threads :
        \/ \E k \in CoreKeys : InvalBelow(k) /\ CallOnMiss(t, k)
        \/ OnMiss(t)
        \/ \E k \in CoreKeys, th \in Thresholds : CallShouldSkipInsert(t, k, th)
        \/ ShouldSkipInsert(t)
        \/ \E k \in CoreKeys : CachedBelow(k) /\ CallOnInsert(t, k)
        \/ InsertRef(t)
        \/ InsertLoad(t)
        \/ InsertStore(t)
        \/ \E k \in CoreKeys : CallOnEvict(t, k)
        \/ OnEvict(t)
        \/ \E k \in CoreKeys : CallGetInvalidation(t, k)
        \/ GetInvalidation(t)
        \/ Release(t)
        \/ t \in ClearThreads /\ CallClearAll(t)
        \/ ClearLock(t)
        \/ ClearErase(t)
        \/ ClearUnlock(t)
        \/ ClearReturn(t)

Spec == Init /\ [][Next]_vars

---------------------------------------------------------------------------
(* Scenario: the threads insert one and the same key, MaxCalls times each, *)
(* while misses and reads of that key go on; no evict, no clear.           *)

RECURSIVE SumOver(_, _)
SumOver(f, S) == IF S = {} THEN 0
                 ELSE LET x == CHOOSE y \in S : TRUE
                      IN  f[x] + SumOver(f, S \ {x})
\* hooks completed by all the callers' loops together
Completed == SumOver(calls, Threads)

\* the hook at its return is the one the caller's loop counts
Counted(t, op) == pc[t] = "unlock" /\ arg[t].op = op

NextInsert ==
    \E t \in Threads :
        \/ calls[t] < MaxCalls /\ CallOnInsert(t, K1)
        \/ InsertRef(t)
        \/ InsertLoad(t)
        \/ InsertStore(t)
        \/ Counted(t, "OnInsert") /\ LoopRelease(t)
        \/ InvalBelow(K1) /\ CallOnMiss(t, K1)
        \/ OnMiss(t)
        \/ CallGetInvalidation(t, K1)
        \/ GetInvalidation(t)
        \/ pc[t] = "unlock" /\ ~Counted(t, "OnInsert") /\ Release(t)

SpecInsert == Init /\ [][NextInsert]_vars

---------------------------------------------------------------------------
(* Scenario: the threads call the five hooks on keys of one shard, at any  *)
(* time and in any order; no clear.                                        *)

ShardKeys == {K1, K2}

NextKey ==
    \E t \in Threads :
        \/ \E k \in ShardKeys : InvalBelow(k) /\ CallOnMiss(t, k)
        \/ OnMiss(t)
        \/ \E k \in ShardKeys, th \in Thresholds : CallShouldSkipInsert(t, k, th)
        \/ ShouldSkipInsert(t)
        \/ \E k \in ShardKeys : CachedBelow(k) /\ CallOnInsert(t, k)
        \/ InsertRef(t)
        \/ InsertLoad(t)
        \/ InsertStore(t)
        \/ \E k \in ShardKeys : CallOnEvict(t, k)
        \/ OnEvict(t)
        \/ \E k \in ShardKeys : CallGetInvalidation(t, k)
        \/ GetInvalidation(t)
        \/ Release(t)

SpecKey == Init /\ [][NextKey]_vars

---------------------------------------------------------------------------
(* Scenario: one key is inserted once; then the threads report misses of   *)
(* it, MaxCalls times each, and read its counters; no evict, no clear.     *)

NextMiss ==
    \E t \in Threads :
        \/ ~Present(K1) /\ CallOnInsert(t, K1)
        \/ InsertRef(t)
        \/ InsertLoad(t)
        \/ InsertStore(t)
        \/ Present(K1) /\ calls[t] < MaxCalls /\ CallOnMiss(t, K1)
        \/ OnMiss(t)
        \/ Counted(t, "OnMiss") /\ LoopRelease(t)
        \/ CallGetInvalidation(t, K1)
        \/ GetInvalidation(t)
        \/ \E th \in Thresholds : CallShouldSkipInsert(t, K1, th)
        \/ ShouldSkipInsert(t)
        \/ pc[t] = "unlock" /\ ~Counted(t, "OnMiss") /\ Release(t)

SpecMiss == Init /\ [][NextMiss]_vars

---------------------------------------------------------------------------
(* Scenario: all hooks, with K2 never inserted and with ClearAll called    *)
(* only while no other hook runs (a reset of the whole cache).             *)

\* values passed to SetThreshold
MaxValue == 2
Values == {U32(n) : n \in 0..MaxValue}

Quiet == \A t \in Threads : pc[t] = "idle"
NoClear == \A t \in Threads : pc[t] \notin {"clear_lock", "clear_erase", "clear_unlock", "clear_ret"}

QuietKeys == {K1, K2}
QuietTKeys == {<<4096, 0>>}

NextQuiet ==
    \E t \in Threads :
        \/ NoClear /\ CachedBelow(K1) /\ CallOnInsert(t, K1)
        \/ InsertRef(t)
        \/ InsertLoad(t)
        \/ InsertStore(t)
        \/ \E k \in QuietKeys : NoClear /\ InvalBelow(k) /\ CallOnMiss(t, k)
        \/ OnMiss(t)
        \/ \E k \in QuietKeys : NoClear /\ CallOnEvict(t, k)
        \/ OnEvict(t)
        \/ \E k \in QuietKeys : NoClear /\ CallShouldSkipInsert(t, k, U32(1))
        \/ ShouldSkipInsert(t)
        \/ \E k \in QuietKeys : NoClear /\ CallGetInvalidation(t, k)
        \/ GetInvalidation(t)
        \/ Release(t)
        \/ Quiet /\ CallClearAll(t)
        \/ ClearLock(t)
        \/ ClearErase(t)
        \/ ClearUnlock(t)
        \/ ClearReturn(t)
        \/ \E p \in QuietTKeys, v \in Values : NoClear /\ CallSet(t, p[1], p[2], v)
        \/ SetFind(t)
        \/ SetSlot(t)
        \/ SetStore(t)
        \/ \E p \in QuietTKeys : NoClear /\ CallGet(t, p[1], p[2])
        \/ Get(t)
        \/ TRelease(t)

SpecQuiet == Init /\ [][NextQuiet]_vars

---------------------------------------------------------------------------
(* Scenario: concurrent SetThreshold and GetThreshold on all pairs.        *)

\* two pairs that share a shard of the ThresholdTable, and one that does not
ThresholdKeys == {<<4096, 0>>, <<4160, 0>>, <<4096, 1>>}

NextThreshold ==
    \E t \in Threads :
        \/ \E p \in ThresholdKeys, v \in Values : CallSet(t, p[1], p[2], v)
        \/ SetFind(t)
        \/ SetSlot(t)
        \/ SetStore(t)
        \/ \E p \in ThresholdKeys : CallGet(t, p[1], p[2])
        \/ Get(t)
        \/ TRelease(t)

SpecThreshold == Init /\ [][NextThreshold]_vars

---------------------------------------------------------------------------
(* Properties *)

\* the number a uint32_t stands for (counters of the runs stay far below 2^31)
Val(x) == x[1] * Half + x[2]

\* a thread is between the two halves of OnInsert(k): the reference is taken
\* (a missing Entry has just been created), the count not yet incremented
InsertInFlight(k) ==
    \E t \in Threads : pc[t] \in {"ins_load", "ins_store"} /\ arg[t].k = k

\* C1: an Entry is stored for a key exactly when its cached_count is at least
\* 1.  Outside the critical section of an OnInsert no Entry with
\* cached_count = 0 is stored in any shard, whatever the interleaving of
\* OnInsert, OnMiss, OnEvict and ClearAll; inside it, only the Entry being
\* inserted can have the count 0 that operator[] gave it.
C1_EntryIffCached ==
    \A s \in UsedShards : \A k \in DOMAIN map[s] :
        /\ mu[s] = NoThread => Val(map[s][k].cached_key_count) >= 1
        /\ Val(map[s][k].cached_key_count) = 0 => InsertInFlight(k)

\* an OnEvict has just removed a key while another key is cached MaxCached times
C1_Witness ==
    \E t \in Threads :
        /\ pc[t] = "unlock" /\ arg[t].op = "OnEvict" /\ ~Present(arg[t].k)
        /\ \E k \in CoreKeys : Present(k) /\ Val(EntryOf(k).cached_key_count) = MaxCached

\* C2: N threads insert the identical key M times each, with no evict and no
\* clear: whenever no hook is inside the key's shard the cached_count is the
\* number of completed inserts, and it is N*M when all loops have ended.
C2_NoLostInsert ==
    /\ mu[ShardIdx(K1)] = NoThread =>
          IF Completed = 0 THEN ~Present(K1)
          ELSE Present(K1) /\ Val(EntryOf(K1).cached_key_count) = Completed
    /\ (\A t \in Threads : calls[t] = MaxCalls /\ pc[t] = "idle") =>
          Present(K1) /\ Val(EntryOf(K1).cached_key_count) = NThreads * MaxCalls

\* all loops have ended and the count is N*M
C2_Witness ==
    /\ \A t \in Threads : calls[t] = MaxCalls /\ pc[t] = "idle"
    /\ Val(EntryOf(K1).cached_key_count) = NThreads * MaxCalls

\* C4: ShouldSkipRowCacheInsert(key, t) returns true exactly when an Entry
\* exists for the key and its invalidation_count >= t: true for t = 0 whenever
\* the Entry exists, false for every t when it does not.
C4_SkipResult ==
    \A t \in Threads :
        (pc[t] = "unlock" /\ arg[t].op = "ShouldSkipInsert") =>
            LET k == arg[t].k
            IN  /\ ret[t] = BoolRet(Present(k) /\
                             Val(EntryOf(k).invalidation_count) >= Val(arg[t].threshold))
                /\ (Present(k) /\ Val(arg[t].threshold) = 0) => ret[t] = BoolRet(TRUE)
                /\ ~Present(k) => ret[t] = BoolRet(FALSE)

\* true is returned for threshold 0 on an Entry with no invalidation counted
C4_Witness ==
    \E t \in Threads :
        /\ pc[t] = "unlock" /\ arg[t].op = "ShouldSkipInsert"
        /\ Present(arg[t].k) /\ Val(EntryOf(arg[t].k).invalidation_count) = 0
        /\ Val(arg[t].threshold) = 0 /\ ret[t] = BoolRet(TRUE)

(* The per-key state machine: Absent, or Present(c, i) with c >= 1 cached   *)
(* copies and i invalidations.                                             *)
AbsentState == [present |-> FALSE, cached |-> 0, inval |-> 0]
PresentState(c, i) == [present |-> TRUE, cached |-> c, inval |-> i]

\* what is stored for key k
KeyState(k) ==
    IF Present(k)
    THEN PresentState(Val(EntryOf(k).cached_key_count), Val(EntryOf(k).invalidation_count))
    ELSE AbsentState

\* what the completed hooks have made of key k: an OnInsert takes effect with
\* its increment, so the Entry it has created and not yet counted is not there
Committed(k) ==
    IF Present(k) /\ Val(EntryOf(k).cached_key_count) = 0 /\ InsertInFlight(k)
    THEN AbsentState
    ELSE KeyState(k)

\* the hooks applied one at a time to the state machine
SeqNext(op, st) ==
    CASE op = "OnInsert" -> IF st.present THEN PresentState(st.cached + 1, st.inval)
                                          ELSE PresentState(1, 0)
      [] op = "OnMiss"   -> IF st.present THEN PresentState(st.cached, st.inval + 1)
                                          ELSE AbsentState
      [] op = "OnEvict"  -> IF st.present /\ st.cached > 1 THEN PresentState(st.cached - 1, st.inval)
                                                      ELSE AbsentState
      [] OTHER -> st
SeqRet(call, st) ==
    CASE call.op = "ShouldSkipInsert" ->
             BoolRet(st.present /\ st.inval >= Val(call.threshold))
      [] call.op = "GetInvalidation"  -> U32(IF st.present THEN st.inval ELSE 0)
      [] OTHER -> NoValue

\* thread t executes the statement at which its hook takes effect
Linearizes(t) ==
    /\ pc[t] \in {"miss", "skip", "ins_store", "evict", "getinv"}
    /\ pc'[t] = "unlock"
\* thread t is at the first statement of a critical section
AtEntry(t) == pc[t] \in {"miss", "skip", "ins_ref", "evict", "getinv"}

\* C3: concurrent OnInsert, OnMiss, OnEvict, ShouldSkipInsert and
\* GetInvalidationCount calls are linearizable.  Each call takes effect in one
\* step inside its critical section: that step changes the key's committed
\* state as the sequential state machine does and its result is the
\* sequential one; a key's committed state changes in no other step (but when
\* ClearAll clears its shard); and a call that enters its critical section
\* finds the committed state of its key, never a half-made Entry.
C3_Linearizable ==
    [][ /\ \A t \in Threads : Linearizes(t) =>
              /\ Committed(arg[t].k)' = SeqNext(arg[t].op, Committed(arg[t].k))
              /\ ret'[t] = SeqRet(arg[t], Committed(arg[t].k))
        /\ \A k \in Keys : Committed(k)' # Committed(k) =>
              \E t \in Threads : \/ Linearizes(t) /\ arg[t].k = k
                                 \/ pc[t] = "clear_erase" /\ idx[t] = ShardIdx(k)
        /\ \A t \in Threads : AtEntry(t)' => KeyState(arg[t].k)' = Committed(arg[t].k)'
      ]_vars

\* an OnInsert of K1 is at its return, having made the count 2 of a key that
\* was inserted and missed before, while the shard holds K2 as well
C3_Witness ==
    \E t \in Threads :
        /\ pc[t] = "unlock" /\ arg[t].op = "OnInsert" /\ arg[t].k = K1
        /\ KeyState(K1) = PresentState(2, 1)
        /\ Present(K2)

\* C5: a key is inserted once and then misses are reported for it, with no
\* evict and no clear: after N misses GetInvalidationCount returns N.  Each
\* miss adds exactly 1 to invalidation_count and leaves cached_count at 1.
C5_MissCount ==
    /\ (mu[ShardIdx(K1)] = NoThread /\ Present(K1)) =>
           KeyState(K1) = PresentState(1, Completed)
    /\ \A t \in Threads :
           /\ Counted(t, "OnMiss") => KeyState(K1) = PresentState(1, Completed + 1)
           /\ Counted(t, "GetInvalidation") => Val(ret[t]) = Completed

\* every thread has reported its MaxCalls misses and a read returns their number
C5_Witness ==
    \E t \in Threads :
        /\ \A u \in Threads : calls[u] = MaxCalls
        /\ Counted(t, "GetInvalidation") /\ Val(ret[t]) = NThreads * MaxCalls

\* thread t executes the body of OnEvict
Evicts(t) == pc[t] = "evict" /\ pc'[t] = "unlock"

\* C6: OnEvict on a Present key with cached_count c leaves the Entry with
\* c - 1 and the same invalidation_count if c > 1, and removes it if c = 1
\* (Insert, Insert, Evict leaves 1; a second Evict leaves the key Absent);
\* on an Absent key it does nothing.  The count never goes below 1.
C6_EvictStep ==
    [][ \A t \in Threads : Evicts(t) =>
            LET k == arg[t].k
                before == KeyState(k)
            IN  /\ (before.present /\ before.cached > 1) =>
                       KeyState(k)' = PresentState(before.cached - 1, before.inval)
                /\ (before.present /\ before.cached = 1) => KeyState(k)' = AbsentState
                /\ ~before.present => KeyState(k)' = AbsentState
                /\ KeyState(k)'.present => KeyState(k)'.cached >= 1
      ]_vars

\* an OnEvict has found the key cached twice and has left it cached once, its
\* invalidation kept
C6_Witness ==
    \E t \in Threads :
        /\ pc[t] = "unlock" /\ arg[t].op = "OnEvict" /\ it[t] = "found"
        /\ KeyState(arg[t].k) = PresentState(1, 1)

\* C7: an OnEvict that drains cached_count to zero discards the key's
\* invalidation history: right after it GetInvalidationCount is 0 and
\* ShouldSkipInsert is false for every threshold, and an OnInsert that finds
\* the key Absent makes its Entry (cached_count 1, invalidation_count 0).
C7_HistoryDiscarded ==
    [][ \A t \in Threads :
          /\ (Evicts(t) /\ KeyState(arg[t].k).present /\ KeyState(arg[t].k).cached = 1) =>
                 LET after == map'[ShardRef(t)]
                 IN  /\ ~Has(after, arg[t].k)
                     /\ GetInvalidationResult(after, arg[t].k) = U32Zero
                     /\ \A th \in Thresholds : ~SkipResult(after, arg[t].k, th)
          /\ (pc[t] = "ins_store" /\ pc'[t] = "unlock" /\ ~Committed(arg[t].k).present) =>
                 KeyState(arg[t].k)' = PresentState(1, 0)
      ]_vars

\* an OnEvict has found the Entry of its key and has removed it
C7_Witness ==
    \E t \in Threads :
        /\ pc[t] = "unlock" /\ arg[t].op = "OnEvict" /\ it[t] = "found"
        /\ ~Present(arg[t].k)

\* C8: Entries are created only by OnInsert.  A step that makes a key Present
\* is the operator[] of an OnInsert of that key; OnMiss, OnEvict,
\* ShouldSkipInsert and GetInvalidationCount on an Absent key change no map
\* and read 0 and false; and K2, which nobody inserts, stays Absent through
\* every hook, ClearAll and SetThreshold included.
C8_OnlyInsertCreates ==
    [][ /\ \A k \in Keys : (~Present(k) /\ Present(k)') =>
              \E t \in Threads : pc[t] = "ins_ref" /\ arg[t].k = k
        /\ \A t \in Threads :
              (pc[t] \in {"miss", "evict", "skip", "getinv"} /\ pc'[t] = "unlock"
                    /\ ~Present(arg[t].k)) =>
                  /\ map' = map
                  /\ pc[t] = "skip" => ret'[t] = BoolRet(FALSE)
                  /\ pc[t] = "getinv" => Val(ret'[t]) = 0
        /\ ~Present(K2)'
      ]_vars

\* a miss of the never-inserted K2 has been reported and K2 is Absent, while
\* K1 is Present and a threshold is set
C8_Witness ==
    \E t \in Threads :
        /\ pc[t] = "unlock" /\ arg[t].op = "OnMiss" /\ arg[t].k = K2
        /\ ~Present(K2) /\ Present(K1)
        /\ \E p \in QuietTKeys : Has(tmap[TShardIdx(p[1], p[2])], TKey(p[1], p[2]))

\* thread t is inside ClearAll
InClear(t) == pc[t] \in {"clear_lock", "clear_erase", "clear_unlock", "clear_ret"}

\* C9: a ClearAll that runs with no concurrent hook leaves no Entry in any
\* shard, so that every key reads invalidation count 0 and ShouldSkipInsert
\* false, and from its call to its return GetThreshold(db, ns) keeps its value
\* for every (db, ns).
C9_ClearAll ==
    [][ \A t \in Threads : (InClear(t) \/ InClear(t)') =>
          /\ \A p \in TKeys :
                GetResult(tmap'[TShardIdx(p[1], p[2])], TKey(p[1], p[2]))
                    = GetResult(tmap[TShardIdx(p[1], p[2])], TKey(p[1], p[2]))
          /\ pc'[t] = "clear_ret" =>
                /\ \A s \in UsedShards : map'[s] = EmptyMap
                /\ \A k \in Keys :
                      /\ GetInvalidationResult(map'[ShardIdx(k)], k) = U32Zero
                      /\ \A th \in Thresholds : ~SkipResult(map'[ShardIdx(k)], k, th)
      ]_vars

\* a ClearAll is at its return and a threshold other than the default is set
C9_Witness ==
    \E t \in Threads :
        /\ pc[t] = "clear_ret"
        /\ \E p \in QuietTKeys :
              Val(GetResult(tmap[TShardIdx(p[1], p[2])], TKey(p[1], p[2]))) = MaxValue

\* the value stored for the pair p, or the default
TRaw(p) ==
    LET m == tmap[TShardIdx(p[1], p[2])]
    IN  IF Has(m, TKey(p[1], p[2])) THEN Val(m[TKey(p[1], p[2])])
        ELSE kKVCPDefaultThreshold
\* a Set of a pair never set before has made the slot and not yet stored into it
SlotInFlight(p) ==
    \E t \in Threads :
        pc[t] = "set_store" /\ it[t] = "end" /\ TKeyOf(t) = TKey(p[1], p[2])
\* the value the completed SetThreshold calls have given the pair p
TCommitted(p) == IF SlotInFlight(p) THEN kKVCPDefaultThreshold ELSE TRaw(p)
PairOf(t) == <<arg[t].db_ptr, arg[t].cf_id>>

\* C10: GetThreshold(db, ns) returns the value of the most recent
\* SetThreshold of that pair, or the default 3 if there was none, also when
\* Set and Get run concurrently: every pair starts at the default, a Set gives
\* its pair its value and leaves every other pair alone, nothing but a Set of
\* a pair changes its value, and a Get returns the value of its pair.
C10_Threshold ==
    /\ \A p \in TKeys : TCommitted(p) = kKVCPDefaultThreshold
    /\ [][ /\ \A t \in Threads : (pc[t] = "set_store" /\ pc'[t] = "tunlock") =>
                 /\ TCommitted(PairOf(t))' = Val(arg[t].v)
                 /\ \A q \in TKeys \ {PairOf(t)} : TCommitted(q)' = TCommitted(q)
           /\ \A t \in Threads : (pc[t] = "get" /\ pc'[t] = "tunlock") =>
                 Val(ret'[t]) = TCommitted(PairOf(t))
           /\ \A p \in TKeys : TCommitted(p)' # TCommitted(p) =>
                 \E t \in Threads :
                     pc[t] = "set_store" /\ pc'[t] = "tunlock" /\ PairOf(t) = p
         ]_vars

\* a Get returns the value set for its pair while the pair sharing its shard
\* holds another value and a third pair was never set
C10_Witness ==
    \E t \in Threads :
        /\ pc[t] = "tunlock" /\ arg[t].op = "Get" /\ PairOf(t) = <<4096, 0>>
        /\ Val(ret[t]) = 1
        /\ TCommitted(<<4160, 0>>) = 2
        /\ ~Has(tmap[TShardIdx(4096, 1)], TKey(4096, 1))

---------------------------------------------------------------------------
(* Scenario: the threads set and read the HybridModeFlag while hooks of the *)
(* StatsTable, ClearAll and SetThreshold run on one key and one pair.       *)

NextHybrid ==
    \E t \in Threads :
        \/ \E on \in BOOLEAN : CallSetHybridEnabled(t, on)
        \/ SetHybridEnabled(t)
        \/ CallIsHybridEnabled(t)
        \/ IsHybridEnabled(t)
        \/ HybridReturn(t)
        \/ CachedBelow(K1) /\ CallOnInsert(t, K1)
        \/ InsertRef(t)
        \/ InsertLoad(t)
        \/ InsertStore(t)
        \/ InvalBelow(K1) /\ CallOnMiss(t, K1)
        \/ OnMiss(t)
        \/ CallOnEvict(t, K1)
        \/ OnEvict(t)
        \/ Release(t)
        \/ t \in ClearThreads /\ CallClearAll(t)
        \/ ClearLock(t)
        \/ ClearErase(t)
        \/ ClearUnlock(t)
        \/ ClearReturn(t)
        \/ \E p \in QuietTKeys : CallSet(t, p[1], p[2], U32(MaxValue))
        \/ SetFind(t)
        \/ SetSlot(t)
        \/ SetStore(t)
        \/ TRelease(t)

SpecHybrid == Init /\ [][NextHybrid]_vars

\* thread t executes the store of SetHybridEnabled / the load of IsHybridEnabled
HybridSets(t) == pc[t] = "hset" /\ pc'[t] = "hret"
HybridReads(t) == pc[t] = "hget" /\ pc'[t] = "hret"

\* C11: IsHybridEnabled returns false before any SetHybridEnabled call and
\* afterwards the argument of the most recent one: the flag starts false, the
\* store of SetHybridEnabled(on) makes it on, the load of IsHybridEnabled
\* returns it, and no other step (of an insert, a miss, an evict, ClearAll or
\* SetThreshold) changes it.
C11_HybridFlag ==
    /\ hybrid = FALSE
    /\ [][ /\ \A t \in Threads : HybridSets(t) => hybrid' = arg[t].on
           /\ \A t \in Threads : HybridReads(t) => ret'[t] = BoolRet(hybrid)
           /\ hybrid' # hybrid => \E t \in Threads : HybridSets(t)
         ]_vars

\* a read returns true, so a SetHybridEnabled(true) came before it, while a key
\* is cached, a threshold is set and another thread is inside ClearAll
C11_Witness ==
    \E t, u \in Threads :
        /\ pc[t] = "hret" /\ arg[t].op = "IsHybridEnabled" /\ ret[t] = BoolRet(TRUE)
        /\ pc[u] = "clear_erase"
        /\ Present(K1)
        /\ \E p \in QuietTKeys : TRaw(p) = MaxValue

---------------------------------------------------------------------------
(* Scenario for progress: a call and the wait for its shard's mutex are     *)
(* separate steps, so a thread can be seen waiting.  Every thread calls any *)
(* of the eight operations at any time.  A thread that can take a step      *)
(* takes it in the end, and a thread waiting for a mutex that is free again *)
(* and again gets it in the end.  Every step of a thread changes its pc.    *)

\* the first statement of a hook's critical section
FirstOf(op) ==
    CASE op = "OnMiss" -> "miss"
      [] op = "ShouldSkipInsert" -> "skip"
      [] op = "OnInsert" -> "ins_ref"
      [] op = "OnEvict" -> "evict"
      [] op = "GetInvalidation" -> "getinv"
      [] op = "Set" -> "set_find"
      [] op = "Get" -> "get"

\* thread t calls a hook of the StatsTable and arrives at its lock_guard
Invoke(t, call) ==
    /\ pc[t] = "idle"
    /\ pc' = [pc EXCEPT ![t] = "lock"]
    /\ arg' = [arg EXCEPT ![t] = call]
    /\ UNCHANGED <<map, mu, tmap, tmu, it, tmp, ret, idx, calls, hybrid>>

\* std::lock_guard<std::mutex> lk(sh.mu) returns once the mutex is free
Lock(t) ==
    /\ pc[t] = "lock"
    /\ MutexFree(mu, ShardRef(t))
    /\ mu' = [mu EXCEPT ![ShardRef(t)] = t]
    /\ pc' = [pc EXCEPT ![t] = FirstOf(arg[t].op)]
    /\ UNCHANGED <<map, tmap, tmu, arg, it, tmp, ret, idx, calls, hybrid>>

\* the same for Set and Get of the ThresholdTable
TInvoke(t, call) ==
    /\ pc[t] = "idle"
    /\ pc' = [pc EXCEPT ![t] = "tlock"]
    /\ arg' = [arg EXCEPT ![t] = call]
    /\ UNCHANGED <<map, mu, tmap, tmu, it, tmp, ret, idx, calls, hybrid>>

TLock(t) ==
    /\ pc[t] = "tlock"
    /\ MutexFree(tmu, TShardRef(t))
    /\ tmu' = [tmu EXCEPT ![TShardRef(t)] = t]
    /\ pc' = [pc EXCEPT ![t] = FirstOf(arg[t].op)]
    /\ UNCHANGED <<map, mu, tmap, arg, it, tmp, ret, idx, calls, hybrid>>

\* the calls the threads make
LiveCalls ==
    {[op |-> o, k |-> K1] : o \in {"OnMiss", "OnInsert", "OnEvict", "GetInvalidation"}}
        \cup {[op |-> "ShouldSkipInsert", k |-> K1, threshold |-> U32(1)]}
LiveTCalls ==
    {[op |-> "Set", db_ptr |-> 4096, cf_id |-> 0, v |-> U32(1)],
     [op |-> "Get", db_ptr |-> 4096, cf_id |-> 0]}
\* the callers insert a key the table does not hold and report a miss of a key
\* that no miss was counted for: locking does not depend on the counts
LiveGuard(call) ==
    CASE call.op = "OnInsert" -> ~Present(call.k)
      [] call.op = "OnMiss" ->
             IF Present(call.k) THEN EntryOf(call.k).invalidation_count = U32Zero
                                ELSE TRUE
      [] OTHER -> TRUE

\* thread t starts an operation
Calls(t) ==
    \/ \E call \in LiveCalls : LiveGuard(call) /\ Invoke(t, call)
    \/ \E call \in LiveTCalls : TInvoke(t, call)
    \/ t \in ClearThreads /\ CallClearAll(t)
\* thread t waits for a mutex and gets it
Locks(t) == Lock(t) \/ TLock(t) \/ ClearLock(t)
\* thread t executes a statement that waits for nothing
Runs(t) ==
    \/ OnMiss(t) \/ ShouldSkipInsert(t)
    \/ InsertRef(t) \/ InsertLoad(t) \/ InsertStore(t)
    \/ OnEvict(t) \/ GetInvalidation(t) \/ Release(t)
    \/ ClearErase(t) \/ ClearUnlock(t) \/ ClearReturn(t)
    \/ SetFind(t) \/ SetSlot(t) \/ SetStore(t) \/ Get(t) \/ TRelease(t)

NextLive == \E t \in Threads : Calls(t) \/ Locks(t) \/ Runs(t)

\* the statements a thread can be at
PcValues ==
    {"idle", "lock", "tlock", "unlock", "tunlock", "miss", "skip", "ins_ref",
     "ins_load", "ins_store", "evict", "getinv", "clear_lock", "clear_erase",
     "clear_unlock", "clear_ret", "set_find", "set_slot", "set_store", "get",
     "hset", "hget", "hret"}
\* thread t, and no other thread, moves to another statement
Moved(t) == \E p \in PcValues \ {pc[t]} : pc' = [pc EXCEPT ![t] = p]

SpecLive ==
    /\ Init /\ [][NextLive]_vars
    /\ \A t \in Threads : WF_pc(Moved(t) /\ Runs(t)) /\ SF_pc(Moved(t) /\ Locks(t))

\* the mutexes thread t holds
HeldBy(t) == {s \in UsedShards : mu[s] = t}
THeldBy(t) == {s \in TUsedShards : tmu[s] = t}
\* thread t waits for a mutex
Waiting(t) == pc[t] \in {"lock", "tlock", "clear_lock"}

---------------------------------------------------------------------------
(* Scenario: the threads call OnInsert, OnMiss and OnEvict on four keys    *)
(* that differ from K1 in the user key (K2), the column family (K3, in     *)
(* another shard) and the database (K4); no clear.                         *)

\* the row cache holds up to MaxCached copies of K1 and one copy of the others
FrameInsertGuard(k) == IF k = K1 THEN CachedBelow(k) ELSE ~Present(k)
\* up to MaxInval misses are counted for K1 and one for the others
FrameMissGuard(k) ==
    IF k = K1 THEN InvalBelow(k)
    ELSE IF Present(k) THEN EntryOf(k).invalidation_count = U32Zero ELSE TRUE

NextFrame ==
    \E t \in Threads :
        \/ \E k \in Keys : FrameMissGuard(k) /\ CallOnMiss(t, k)
        \/ OnMiss(t)
        \/ \E k \in Keys : FrameInsertGuard(k) /\ CallOnInsert(t, k)
        \/ InsertRef(t)
        \/ InsertLoad(t)
        \/ InsertStore(t)
        \/ \E k \in Keys : CallOnEvict(t, k)
        \/ OnEvict(t)
        \/ Release(t)

SpecFrame == Init /\ [][NextFrame]_vars

\* thread t executes a statement of the body of OnInsert, OnMiss or OnEvict
\* on key k
Writes(t, k) ==
    /\ pc[t] \in {"miss", "ins_ref", "ins_load", "ins_store", "evict"}
    /\ arg[t].k = k
    /\ pc'[t] # pc[t]

\* C13: OnInsert, OnMiss and OnEvict on one key triple change only that
\* triple's Entry.  A step in which the Entry of a key (its presence, its
\* cached_key_count, its invalidation_count) changes is a step of a hook
\* called on that very key; so a hook on a key that differs in the database,
\* the column family or the user key leaves it as it is, in the same shard
\* or in another.
C13_Frame ==
    [][ \A j \in Keys : KeyState(j)' # KeyState(j) =>
            \E t \in Threads : Writes(t, j)
      ]_vars

\* an OnEvict of K1 has left it cached once with its miss kept, while K2 and
\* K4 of the same shard and K3 of another shard are cached with a miss each
C13_Witness ==
    \E t \in Threads :
        /\ pc[t] = "unlock" /\ arg[t].op = "OnEvict" /\ arg[t].k = K1
        /\ \A k \in Keys : KeyState(k) = PresentState(1, 1)


(* The read operations, checked in the scenario of SpecQuiet. *)

ReadOps == {"ShouldSkipInsert", "GetInvalidation", "Get"}
\* thread t takes a step of a read operation: its call, its body or its return
Reads(t) ==
    /\ pc'[t] # pc[t]
    /\ \/ pc[t] \in {"skip", "getinv", "get"}
       \/ pc'[t] \in {"skip", "getinv", "get"}
       \/ pc[t] \in {"unlock", "tunlock"} /\ arg[t].op \in ReadOps

\* C14: ShouldSkipRowCacheInsert, GetInvalidationCount and GetThreshold are
\* pure.  No step of theirs changes an Entry of the StatsTable or a
\* ThresholdEntry, and the result of ShouldSkipRowCacheInsert is a function of
\* the key's Entry and of the threshold passed in alone: true iff the key is
\* Present and its invalidation_count is at least the argument, whatever the
\* ThresholdTable holds.
C14_PureReads ==
    [][ \A t \in Threads : Reads(t) =>
            /\ map' = map
            /\ tmap' = tmap
            /\ pc[t] = "skip" =>
                   ret'[t] = BoolRet(/\ KeyState(arg[t].k).present
                                     /\ KeyState(arg[t].k).inval >= Val(arg[t].threshold))
      ]_vars

\* ShouldSkipInsert(K1, 1) has returned true for a key with one miss while the
\* ThresholdTable holds a larger threshold for the key's column family
C14_Witness ==
    \E t \in Threads :
        /\ pc[t] = "unlock" /\ arg[t].op = "ShouldSkipInsert" /\ arg[t].k = K1
        /\ Val(arg[t].threshold) = 1 /\ ret[t] = BoolRet(TRUE)
        /\ KeyState(K1).present /\ KeyState(K1).inval = 1
        /\ TRaw(<<4096, 0>>) = MaxValue


(* The counters of a Present key, checked in the scenario of SpecKey. *)

\* thread t executes the step at which its hook op on key k takes effect
Effects(t, op, k) == Linearizes(t) /\ arg[t].op = op /\ arg[t].k = k

\* C15: while a key's Entry stays Present, its invalidation_count changes
\* only through OnMiss, by +1.  OnInsert on a Present key increments
\* cached_key_count and leaves invalidation_count unchanged; OnEvict with
\* cached_key_count > 1 decrements cached_key_count and leaves
\* invalidation_count unchanged.
C15_InvalidationOnlyByMiss ==
    [][ \A k \in ShardKeys :
          LET before == KeyState(k)
              after == KeyState(k)'
          IN  before.present =>
                /\ (after.present /\ after.inval # before.inval) =>
                       /\ \E t \in Threads : Effects(t, "OnMiss", k)
                       /\ after = PresentState(before.cached, before.inval + 1)
                /\ (\E t \in Threads : Effects(t, "OnInsert", k)) =>
                       after = PresentState(before.cached + 1, before.inval)
                /\ (before.cached > 1 /\ \E t \in Threads : Effects(t, "OnEvict", k)) =>
                       after = PresentState(before.cached - 1, before.inval)
      ]_vars

\* an OnEvict of K1 has found it cached twice with two misses counted and has
\* left it cached once with the two misses, after an OnInsert that had found
\* the key Present
C15_Witness ==
    \E t \in Threads :
        /\ pc[t] = "unlock" /\ arg[t].op = "OnEvict" /\ arg[t].k = K1
        /\ it[t] = "found"
        /\ KeyState(K1) = PresentState(MaxCached - 1, MaxInval)


---------------------------------------------------------------------------
(* Scenario: the counters at the end of the uint32_t range.  K1 has been   *)
(* inserted once and missed 2^32 - 2 times, or inserted 2^32 - 2 times     *)
(* with no evict; the threads go on calling the hooks on it.               *)

NearMax == U32Dec(U32Max)
WrapEntries ==
    { [cached_key_count |-> U32(1), invalidation_count |-> NearMax],
      [cached_key_count |-> NearMax, invalidation_count |-> U32Zero] }

InitWrap ==
    /\ \E e \in WrapEntries :
           map = [s \in UsedShards |->
                      IF s = ShardIdx(K1) THEN Put(EmptyMap, K1, e) ELSE EmptyMap]
    /\ mu = [s \in UsedShards |-> NoThread]
    /\ tmap = [s \in TUsedShards |-> EmptyMap]
    /\ tmu = [s \in TUsedShards |-> NoThread]
    /\ pc = [t \in Threads |-> "idle"]
    /\ arg = [t \in Threads |-> NoCall]
    /\ it = [t \in Threads |-> Null]
    /\ tmp = [t \in Threads |-> NoValue]
    /\ ret = [t \in Threads |-> NoValue]
    /\ idx = [t \in Threads |-> 0]
    /\ calls = [t \in Threads |-> 0]
    /\ hybrid = FALSE

\* a miss is reported while the count is at the end of the range or below
\* MaxInval
WrapMissGuard(k) ==
    IF Present(k)
    THEN U32Ge(EntryOf(k).invalidation_count, NearMax) \/ InvalBelow(k)
    ELSE TRUE
\* the same for the copies the row cache inserts
WrapInsertGuard(k) ==
    IF Present(k)
    THEN U32Ge(EntryOf(k).cached_key_count, NearMax) \/ CachedBelow(k)
    ELSE TRUE
\* a copy is evicted when the count is at its maximum or at most MaxCached
WrapEvictGuard(k) ==
    IF Present(k)
    THEN \/ EntryOf(k).cached_key_count = U32Max
         \/ ~U32Gt(EntryOf(k).cached_key_count, U32(MaxCached))
    ELSE TRUE

NextWrap ==
    \E t \in Threads :
        \/ WrapMissGuard(K1) /\ CallOnMiss(t, K1)
        \/ OnMiss(t)
        \/ \E th \in Thresholds : CallShouldSkipInsert(t, K1, th)
        \/ ShouldSkipInsert(t)
        \/ WrapInsertGuard(K1) /\ CallOnInsert(t, K1)
        \/ InsertRef(t)
        \/ InsertLoad(t)
        \/ InsertStore(t)
        \/ WrapEvictGuard(K1) /\ CallOnEvict(t, K1)
        \/ OnEvict(t)
        \/ CallGetInvalidation(t, K1)
        \/ GetInvalidation(t)
        \/ Release(t)
        \/ t \in ClearThreads /\ CallClearAll(t)
        \/ ClearLock(t)
        \/ ClearErase(t)
        \/ ClearUnlock(t)
        \/ ClearReturn(t)

SpecWrap == InitWrap /\ [][NextWrap]_vars

\* what ShouldSkipInsert(k, th) returns when called in the current state
Skips(k, th) == SkipResult(map[ShardIdx(k)], k, th)

\* C16: the skip decision is sticky.  Once ShouldSkipRowCacheInsert(key, th)
\* returns true it returns true for the same th until an OnEvict removes the
\* key's Entry or ClearAll runs: no step that leaves the Entry in the table,
\* an OnMiss at the maximum of invalidation_count included, turns the
\* decision from true to false.
C16_StickySkip ==
    [][ \A th \in Thresholds :
            (Skips(K1, th) /\ Present(K1)') => Skips(K1, th)'
      ]_vars

\* an OnMiss has found invalidation_count at its maximum and has counted
C16_Witness ==
    \E t \in Threads :
        /\ pc[t] = "unlock" /\ arg[t].op = "OnMiss" /\ arg[t].k = K1
        /\ Present(K1) /\ EntryOf(K1).invalidation_count = U32Zero
        /\ EntryOf(K1).cached_key_count = U32(1)
        /\ calls[t] = 0 /\ \A u \in Threads \ {t} : pc[u] = "idle"


\* C17: with the counters as 32-bit unsigned integers, OnInsert on an Entry
\* whose cached_key_count is at the maximum still leaves the Entry with
\* cached_key_count >= 1.  So an Entry that no hook is working on has
\* cached_key_count >= 1, an OnInsert leaves cached_key_count >= 1, and an
\* OnEvict deletes an Entry only when its cached_key_count is 1: after the
\* insert at the maximum it decrements.
C17_InsertAtMax ==
    /\ []((mu[ShardIdx(K1)] = NoThread /\ Present(K1)) =>
              U32Ge(EntryOf(K1).cached_key_count, U32(1)))
    /\ [][ \A t \in Threads :
             /\ Effects(t, "OnInsert", K1) =>
                    U32Ge(EntryOf(K1)'.cached_key_count, U32(1))
             /\ (Effects(t, "OnEvict", K1) /\ Present(K1) /\ ~Present(K1)') =>
                    EntryOf(K1).cached_key_count = U32(1)
         ]_vars

\* an OnInsert has found cached_key_count at its maximum and has incremented it
C17_Witness ==
    \E t \in Threads :
        /\ pc[t] = "unlock" /\ arg[t].op = "OnInsert" /\ arg[t].k = K1
        /\ tmp[t] = U32Max
        /\ Present(K1) /\ EntryOf(K1).invalidation_count = U32Zero


---------------------------------------------------------------------------
(* Scenario: ClearAll amid the hooks.  K1 and K3, of different shards, are *)
(* cached once and have OldCount misses counted when the scenario starts;  *)
(* the callers report at most MaxInval misses of an Entry made later, so   *)
(* an Entry with OldCount misses is one that has been there from the       *)
(* start.                                                                  *)

OldCount == MaxInval + 1
OldEntry == [cached_key_count |-> U32(1), invalidation_count |-> U32(OldCount)]

InitClear ==
    /\ map = [s \in UsedShards |->
                 IF s = ShardIdx(K1) THEN Put(EmptyMap, K1, OldEntry)
                 ELSE IF s = ShardIdx(K3) THEN Put(EmptyMap, K3, OldEntry)
                 ELSE EmptyMap]
    /\ mu = [s \in UsedShards |-> NoThread]
    /\ tmap = [s \in TUsedShards |-> EmptyMap]
    /\ tmu = [s \in TUsedShards |-> NoThread]
    /\ pc = [t \in Threads |-> "idle"]
    /\ arg = [t \in Threads |-> NoCall]
    /\ it = [t \in Threads |-> Null]
    /\ tmp = [t \in Threads |-> NoValue]
    /\ ret = [t \in Threads |-> NoValue]
    /\ idx = [t \in Threads |-> 0]
    /\ calls = [t \in Threads |-> 0]
    /\ hybrid = FALSE

NextClear ==
    \E t \in Threads :
        \/ \E k \in CoreKeys : InvalBelow(k) /\ CallOnMiss(t, k)
        \/ OnMiss(t)
        \/ \E k \in CoreKeys : CachedBelow(k) /\ CallOnInsert(t, k)
        \/ InsertRef(t)
        \/ InsertLoad(t)
        \/ InsertStore(t)
        \/ \E k \in CoreKeys : CallOnEvict(t, k)
        \/ OnEvict(t)
        \/ Release(t)
        \/ t \in ClearThreads /\ CallClearAll(t)
        \/ ClearLock(t)
        \/ ClearErase(t)
        \/ ClearUnlock(t)
        \/ ClearReturn(t)

SpecClear == InitClear /\ [][NextClear]_vars

\* the Entry of k has been in the table since before any ClearAll was called
Old(k) == Present(k) /\ EntryOf(k).invalidation_count = U32(OldCount)

\* the ClearAll of thread t has cleared shard s
ClearedBy(t, s) ==
    /\ InClear(t)
    /\ idx[t] > s \/ (idx[t] = s /\ pc[t] = "clear_unlock")

\* C18: ClearAll amid other hooks clears each shard atomically and the
\* shards one at a time.  The step that clears a shard leaves it empty,
\* touches no other shard and is taken holding that shard's mutex alone, so
\* every key has a moment with no Entry; when ClearAll returns it has
\* cleared every shard.  Once ClearAll has cleared a key's shard, an Entry of
\* the key is one that an OnInsert has created since (nothing else creates
\* an Entry): no Entry from before the ClearAll is left with its old counts,
\* while the ClearAll runs or when it returns.
C18_ClearAmidHooks ==
    /\ [][ \A t \in Threads : (pc[t] = "clear_erase" /\ pc'[t] # pc[t]) =>
               /\ map' = [map EXCEPT ![idx[t]] = EmptyMap]
               /\ HeldBy(t) = {idx[t]}
               /\ \A k \in Keys : ShardIdx(k) = idx[t] => ~Present(k)'
         ]_vars
    /\ [][ \A k \in Keys : (~Present(k) /\ Present(k)') =>
               \E t \in Threads : pc[t] = "ins_ref" /\ arg[t].k = k /\ pc'[t] # pc[t]
         ]_vars
    /\ [](\A t \in Threads :
             /\ \A k \in Keys : ClearedBy(t, ShardIdx(k)) => ~Old(k)
             /\ pc[t] = "clear_ret" => \A s \in UsedShards : ClearedBy(t, s))

\* a ClearAll is at its return and the table holds K1 again, inserted and
\* missed since its shard was cleared, while another hook works on K3
C18_Witness ==
    \E t, u \in Threads :
        /\ pc[t] = "clear_ret"
        /\ KeyState(K1) = PresentState(1, 1)
        /\ pc[u] = "ins_store" /\ arg[u].k = K3

====
